---- MODULE Spec2Model ----
(***************************************************************************)
(* Directory-Backup: a one-way directory mirror.                           *)
(*   src/src/watcher.py  Watcher (observer lifecycle) and Handler (the     *)
(*                       four watchdog callbacks, the path mapper and the  *)
(*                       upward directory pruner)                          *)
(*   src/src/main.py     main (one worker thread per subdirectory) and     *)
(*                       worker                                            *)
(*                                                                         *)
(* Paths are Python strings: sequences of one-character strings.  A file   *)
(* system is a function from paths to an entry: "none" (nothing there),    *)
(* "dir" (a directory) or a file content.                                  *)
(***************************************************************************)
EXTENDS Integers, Sequences, FiniteSets, TLC

VARIABLES
    srcFs,           \* the watched tree: file path -> content or "none"
    dstFs,           \* the backup tree: path -> "none", "dir" or content
    queue,           \* the observer's event queue, oldest first
    ignore_pattern,  \* Handler.ignore_pattern
    observer,        \* the observer thread that calls the Handler
    last,            \* the Handler call that has just returned, or NoCall
    nOps,            \* changes of the watched tree made so far
    mapPath,         \* the path given to __in_destination
    mapResult,       \* what __in_destination has returned for it
    mainPc,          \* where main() is
    nStarted,        \* worker threads main() has started, in order
    nJoined,         \* worker threads main() has joined, in order
    workerPc,        \* where each worker thread is
    watcher,         \* the state of each Watcher
    observerThread,  \* the observer thread of each Watcher
    process,         \* the Python process
    stopEvent,       \* the stop flag of the observer, set by observer.stop()
    stopPc,          \* where each call of Watcher.stop() is
    pruneDest,       \* self.dest of the Handler whose pruner is called
    prunePath,       \* the path of the pruner's current invocation
    prunePc,         \* where the pruner is
    pruneCalls,      \* invocations of the pruner so far
    listing,         \* os.listdir(source) as main() has read it
    threads,         \* the arguments of the worker threads of main()
    queues,          \* the event queue of each watcher's observer
    inProgress       \* the Handler calls in progress, for each watcher

watchVars == <<srcFs, dstFs, queue, ignore_pattern, observer, last, nOps>>
mapVars   == <<mapPath, mapResult>>
mainVars  == <<mainPc, nStarted, nJoined, workerPc, watcher, observerThread,
               process>>

lifeVars  == <<stopEvent, stopPc>>

pruneVars == <<pruneDest, prunePath, prunePc, pruneCalls>>
dispVars  == <<listing, threads, queues, inProgress>>

vars == <<watchVars, mapVars, mainVars, lifeVars, pruneVars, dispVars>>

-----------------------------------------------------------------------------
(* Bounds of the model.                                                    *)

MaxOps == 2
MaxQueue == 2
MaxDepth == 3
MaxCallers == 2
MaxChanges == 3

-----------------------------------------------------------------------------
(* Python strings and pathlib.                                             *)

\* s[i..] starts with sub
StartsAt(s, sub, i) ==
    /\ i >= 1
    /\ i + Len(sub) - 1 <= Len(s)
    /\ \A k \in 1..Len(sub) : s[i + k - 1] = sub[k]

startswith(s, prefix) == StartsAt(s, prefix, 1)

\* re.search(pattern, s) for a pattern of literal characters: the pattern
\* occurs somewhere in s (a search, not a full match).
re_search(pattern, s) ==
    \E i \in 1..(Len(s) + 1) : StartsAt(s, pattern, i)

\* str.replace(old, new): every non-overlapping occurrence of old, scanning
\* from the left, is replaced.
RECURSIVE replace_from(_, _, _, _)
replace_from(s, old, new, i) ==
    IF i > Len(s) THEN <<>>
    ELSE IF StartsAt(s, old, i)
         THEN new \o replace_from(s, old, new, i + Len(old))
         ELSE <<s[i]>> \o replace_from(s, old, new, i + 1)

str_replace(s, old, new) ==
    IF old = <<>> THEN s ELSE replace_from(s, old, new, 1)

\* Path(s): pathlib collapses repeated separators and drops a trailing one.
RECURSIVE collapse(_, _, _)
collapse(s, i, acc) ==
    IF i > Len(s) THEN acc
    ELSE IF s[i] = "/" /\ acc # <<>> /\ acc[Len(acc)] = "/"
         THEN collapse(s, i + 1, acc)
         ELSE collapse(s, i + 1, Append(acc, s[i]))

PurePath(s) ==
    LET c == collapse(s, 1, <<>>)
    IN  IF Len(c) > 1 /\ c[Len(c)] = "/" THEN SubSeq(c, 1, Len(c) - 1) ELSE c

\* s.rfind("/", 0, i) + 1: the index of the last "/" among the first i
\* characters of s (0 when there is none)
RECURSIVE rfind_slash(_, _)
rfind_slash(s, i) ==
    IF i = 0 THEN 0 ELSE IF s[i] = "/" THEN i ELSE rfind_slash(s, i - 1)

LastSlash(s) == rfind_slash(s, Len(s))

\* Path.parent of an absolute path; the parent of "/" is "/".
parent(p) ==
    LET k == LastSlash(p)
    IN  IF k <= 1 THEN <<"/">> ELSE SubSeq(p, 1, k - 1)

\* Path.resolve() of an absolute path without symlinks whose only special
\* component is a trailing "..": the ".." takes the component before it away.
resolve(p) ==
    LET n == Len(p)
    IN  IF n >= 3 /\ SubSeq(p, n - 2, n) = <<"/", ".", ".">>
        THEN parent(SubSeq(p, 1, n - 3))
        ELSE p

\* path.joinpath(name)
joinpath(p, name) == PurePath(p \o <<"/">> \o name)

-----------------------------------------------------------------------------
(* One Watcher: its roots, and the paths of the model.                     *)

\* Watcher.__init__: self.source and self.dest, absolute
source == <<"/", "s">>
dest   == <<"/", "d">>

\* Handler.__init__, called by Watcher.__init__ with self.source and
\* self.dest: the fields of the Handler that the callbacks read
Handler == [source |-> source, dest |-> dest]

\* main(source, destination, ...): the directory whose subdirectories are
\* watched is source, and destination is where their backups go
destination == dest

\* what os.listdir(source) can name: the directories a and b and the file f
DirNames == {<<"a">>, <<"b">>}
FileNames == {<<"f">>}

\* the arguments main() gives the worker thread, and worker the Watcher, of
\* the entry subdir of the listing
thread_args(subdir) ==
    [source |-> resolve(joinpath(source, subdir)),
     dest   |-> resolve(joinpath(destination, subdir))]

\* every Handler of the model
Handlers == {Handler} \cup {thread_args(n) : n \in DirNames \cup FileNames}

Root == <<"/">>

\* files of the watched tree the model creates, changes, moves and deletes
FileA == <<"/", "s", "/", "a", "/", "x">>
FileB == <<"/", "s", "/", "b", "/", "c", "/", "y">>
FileC == <<"/", "s", "/", "a", "/", "s">>
SrcFiles == {FileA, FileB, FileC}

\* a file that lies in source itself
RootFile == <<"/", "s", "/", "f">>
AllFiles == SrcFiles \cup {RootFile}

\* directories of the watched tree that directory events are about
DirA == <<"/", "s", "/", "a">>
DirB == <<"/", "s", "/", "b">>
SrcDirs == {DirA, DirB}

NoFile   == "none"
Dir      == "dir"
Contents == {"c1", "c2"}

\* Handler.__in_destination: every occurrence of str(self.source) in
\* str(path) is replaced by str(self.dest).
in_destination(self, path) ==
    PurePath(str_replace(path, self.source, self.dest))

\* in_destination, worked out once for each Handler and each path an event
\* can carry
EventPaths == AllFiles \cup SrcDirs
InDestination ==
    [self \in Handlers |-> [p \in EventPaths |-> in_destination(self, p)]]

\* path relative to root, for a path below root
relative_to(path, root) == SubSeq(path, Len(root) + 2, Len(path))

\* the mapped path of a path below source: dest joined with the path
\* relative to source
MapPath(path) == joinpath(dest, relative_to(path, source))

RECURSIVE SelfAndAncestors(_)
SelfAndAncestors(p) ==
    IF p = Root THEN {} ELSE {p} \cup SelfAndAncestors(parent(p))

Ancestors(p) == SelfAndAncestors(parent(p))

\* q is p or lies below p
IsUnder(q, p) == q = p \/ startswith(q, p \o <<"/">>)

\* every path of the backup tree the model can name: where a Handler puts
\* the paths below its source, and their mapped paths
DstPaths ==
    UNION {UNION {SelfAndAncestors(InDestination[self][p]) :
                      p \in {q \in EventPaths : IsUnder(q, self.source)}} :
               self \in Handlers}
    \cup UNION {SelfAndAncestors(MapPath(p)) : p \in SrcFiles \cup SrcDirs}

EmptyDst == [p \in DstPaths |-> NoFile]

\* Path.parent, worked out once for each path of the backup tree
DstParent == [q \in DstPaths |-> parent(q)]

\* what is at path p of file system fs; "/" always is a directory
Entry(fs, p) ==
    IF p = Root THEN Dir ELSE IF p \in DOMAIN fs THEN fs[p] ELSE NoFile

IsFile(fs, p) == Entry(fs, p) \notin {NoFile, Dir}

\* path.iterdir() yields something; "/" holds the watched tree
HasEntries(fs, p) ==
    \/ p = Root
    \/ \E q \in DOMAIN fs : fs[q] # NoFile /\ q # p /\ DstParent[q] = p

\* what is at path p of the watched tree: a file of srcFs, or a directory
\* when some file lies below it
SrcEntry(p) ==
    IF p \in DOMAIN srcFs /\ srcFs[p] # NoFile THEN srcFs[p]
    ELSE IF \E q \in DOMAIN srcFs :
                srcFs[q] # NoFile /\ q # p /\ IsUnder(q, p) THEN Dir
    ELSE NoFile

-----------------------------------------------------------------------------
(* The file-system calls the Handler makes.  A call takes and returns a    *)
(* record [fs, exc, ops]: the backup tree, the exception in flight ("none" *)
(* when there is none) and the calls that have changed the tree so far,    *)
(* in order.  A call that finds an exception in flight is not made: the    *)
(* statement it stands in is skipped.  fault names the call that the       *)
(* operating system refuses with PermissionError in this Handler call      *)
(* ("none": no refusal).                                                   *)

Faults == {"makedirs", "copy2", "unlink", "iterdir", "rmtree"}

Start(fs) == [fs |-> fs, exc |-> "none", ops |-> <<>>]

\* the call raises exc and changes nothing
Raise(r, exc) == [r EXCEPT !.exc = exc]

\* the call succeeds and leaves the tree fs
Done(r, call, fs) == [r EXCEPT !.fs = fs, !.ops = Append(@, call)]

\* os.makedirs(p, exist_ok=True)
makedirs(r, p, fault) ==
    LET chain == SelfAndAncestors(p)
    IN  IF r.exc # "none" THEN r
        ELSE IF fault = "makedirs" THEN Raise(r, "PermissionError")
        ELSE IF IsFile(r.fs, p) THEN Raise(r, "FileExistsError")
        ELSE IF \E q \in chain : IsFile(r.fs, q)
             THEN Raise(r, "NotADirectoryError")
        ELSE Done(r, <<"makedirs", p>>,
                  [q \in DOMAIN r.fs |-> IF q \in chain THEN Dir ELSE r.fs[q]])

\* where shutil.copy2(src, dst) writes: into dst when dst is a directory
copy2_target(fs, src, dst) ==
    IF Entry(fs, dst) = Dir
    THEN joinpath(dst, SubSeq(src, LastSlash(src) + 1, Len(src)))
    ELSE dst

\* shutil.copy2(src, dst): src is read from the watched tree
copy2(r, src, dst, fault) ==
    LET target == copy2_target(r.fs, src, dst)
    IN  IF r.exc # "none" THEN r
        ELSE IF fault = "copy2" THEN Raise(r, "PermissionError")
        ELSE IF SrcEntry(src) = NoFile THEN Raise(r, "FileNotFoundError")
        ELSE IF SrcEntry(src) = Dir THEN Raise(r, "IsADirectoryError")
        ELSE IF Entry(r.fs, parent(target)) = NoFile
             THEN Raise(r, "FileNotFoundError")
        ELSE IF Entry(r.fs, parent(target)) # Dir
             THEN Raise(r, "NotADirectoryError")
        ELSE IF target \notin DOMAIN r.fs THEN Raise(r, "IsADirectoryError")
        ELSE Done(r, <<"copy2", target>>,
                  [r.fs EXCEPT ![target] = SrcEntry(src)])

\* path.exists()
exists(fs, p) == Entry(fs, p) # NoFile

\* path.unlink()
unlink(r, p, fault) ==
    IF r.exc # "none" THEN r
    ELSE IF fault = "unlink" THEN Raise(r, "PermissionError")
    ELSE IF Entry(r.fs, p) = NoFile THEN Raise(r, "FileNotFoundError")
    ELSE IF Entry(r.fs, p) = Dir THEN Raise(r, "IsADirectoryError")
    ELSE Done(r, <<"unlink", p>>, [r.fs EXCEPT ![p] = NoFile])

\* "if p.exists(): p.unlink()"
unlink_if_exists(r, p, fault) ==
    IF r.exc # "none" THEN r
    ELSE IF exists(r.fs, p) THEN unlink(r, p, fault)
    ELSE r

\* shutil.rmtree(p): p and everything below it
rmtree(r, p, fault) ==
    IF r.exc # "none" THEN r
    ELSE IF fault = "rmtree" THEN Raise(r, "PermissionError")
    ELSE IF Entry(r.fs, p) = NoFile THEN Raise(r, "FileNotFoundError")
    ELSE IF Entry(r.fs, p) # Dir THEN Raise(r, "NotADirectoryError")
    ELSE Done(r, <<"rmtree", p>>,
              [q \in DOMAIN r.fs |-> IF IsUnder(q, p) THEN NoFile ELSE r.fs[q]])

\* "[x for x in path.iterdir()]": reading the directory raises when path is
\* missing, is no directory or may not be read
iterdir(r, path, fault) ==
    IF r.exc # "none" THEN r
    ELSE IF fault = "iterdir" THEN Raise(r, "PermissionError")
    ELSE IF Entry(r.fs, path) = NoFile THEN Raise(r, "FileNotFoundError")
    ELSE IF Entry(r.fs, path) # Dir THEN Raise(r, "NotADirectoryError")
    ELSE r

\* "except FileNotFoundError: pass" (on_moved) and "except FileNotFoundError:
\* return" (the pruner)
except_FileNotFoundError(r) ==
    IF r.exc = "FileNotFoundError" THEN [r EXCEPT !.exc = "none"] ELSE r

-----------------------------------------------------------------------------
(* Handler                                                                 *)

\* self.ignore_pattern and re.search(self.ignore_pattern, path)
IsIgnored(path) == ignore_pattern # <<>> /\ re_search(ignore_pattern, path)

\* the recursive call made on the path itself
up_without_parent(path) == path

\* "up = path.joinpath("..").resolve().absolute()"
up(path) == resolve(joinpath(path, <<".", ".">>))

\* the pruner without its base case "if path == self.dest: return"
RECURSIVE clean_dirs_without_base_case(_, _, _, _)
clean_dirs_without_base_case(self, r, path, fault) ==
    IF r.exc # "none" THEN r
    ELSE IF iterdir(r, path, fault).exc # "none"
         THEN except_FileNotFoundError(iterdir(r, path, fault))
    ELSE IF HasEntries(r.fs, path) THEN r
    ELSE except_FileNotFoundError(
             clean_dirs_without_base_case(
                 self,
                 rmtree(r, path, fault),
                 up(path),
                 fault))

\* the pruner with its base case written "if path == self.source: return"
RECURSIVE clean_dirs_stopping_at_source(_, _, _, _)
clean_dirs_stopping_at_source(self, r, path, fault) ==
    IF r.exc # "none" THEN r
    ELSE IF path = self.source THEN r
    ELSE IF iterdir(r, path, fault).exc # "none"
         THEN except_FileNotFoundError(iterdir(r, path, fault))
    ELSE IF HasEntries(r.fs, path) THEN r
    ELSE except_FileNotFoundError(
             clean_dirs_stopping_at_source(
                 self,
                 rmtree(r, path, fault),
                 up(path),
                 fault))

\* Handler.__recursively_clean_dirs_upwards.  FileNotFoundError, from any
\* call of the body or of the recursion, ends the cleanup silently; every
\* other exception leaves the method.
RECURSIVE recursively_clean_dirs_upwards(_, _, _, _)
recursively_clean_dirs_upwards(self, r, path, fault) ==
    IF r.exc # "none" THEN r
    ELSE IF path = self.dest THEN r
    ELSE IF iterdir(r, path, fault).exc # "none"
         THEN except_FileNotFoundError(iterdir(r, path, fault))
    ELSE IF HasEntries(r.fs, path) THEN r
    ELSE except_FileNotFoundError(
             recursively_clean_dirs_upwards(
                 self,
                 rmtree(r, path, fault),
                 up(path),
                 fault))

\* the try statement with "except FileNotFoundError" in place of "except
\* Exception": every other exception leaves the callback
except_only_FileNotFoundError(r) ==
    [fs |-> r.fs, ops |-> r.ops, exc |-> r.exc,
     warned |-> r.exc = "FileNotFoundError",
     raised |-> IF r.exc \in {"none", "FileNotFoundError"} THEN "none" ELSE r.exc]

\* "except Exception as exc: self.logger.warn(...)": what a callback's
\* try statement makes of its body's result.  Every exception the
\* file-system calls raise is an Exception.
except_Exception(r) ==
    [fs |-> r.fs, ops |-> r.ops, exc |-> r.exc,
     warned |-> r.exc # "none", raised |-> "none"]

\* the try body of Handler.on_created, past the two early returns
created_body(self, r, src, fault) ==
    copy2(makedirs(r, parent(InDestination[self][src]), fault),
          src, InDestination[self][src], fault)

\* on_created without "if event.is_directory: return"
on_created_without_directory_check(self, event, fs, fault) ==
    IF IsIgnored(event.src_path) THEN except_Exception(Start(fs))
    ELSE except_Exception(created_body(self, Start(fs), PurePath(event.src_path), fault))

\* Handler.on_created
on_created(self, event, fs, fault) ==
    IF event.is_directory THEN except_Exception(Start(fs))
    ELSE IF IsIgnored(event.src_path) THEN except_Exception(Start(fs))
    ELSE except_Exception(created_body(self, Start(fs), PurePath(event.src_path), fault))

\* the body of on_modified that removes the old copy and makes no new one
modified_body_without_copy(self, r, src, fault) ==
    makedirs(unlink_if_exists(r, InDestination[self][src], fault),
             parent(InDestination[self][src]), fault)

\* the try body of Handler.on_modified, past the two early returns
modified_body(self, r, src, fault) ==
    copy2(makedirs(unlink_if_exists(r, InDestination[self][src], fault),
                   parent(InDestination[self][src]), fault),
          src, InDestination[self][src], fault)

\* Handler.on_modified
on_modified(self, event, fs, fault) ==
    IF event.is_directory THEN except_Exception(Start(fs))
    ELSE IF IsIgnored(event.src_path) THEN except_Exception(Start(fs))
    ELSE except_Exception(modified_body(self, Start(fs), PurePath(event.src_path), fault))

\* the try body of Handler.on_moved, past the three early returns: the new
\* location is copied first, then the old copy is removed and its
\* directories are cleaned
moved_body(self, r, src, dst, fault) ==
    recursively_clean_dirs_upwards(
                 self,
        unlink_if_exists(
            except_FileNotFoundError(
                copy2(makedirs(r, parent(InDestination[self][dst]), fault),
                      dst, InDestination[self][dst], fault)),
            InDestination[self][src], fault),
        parent(InDestination[self][src]), fault)

\* on_moved without the test of event.dest_path against the ignore pattern
on_moved_without_dest_check(self, event, fs, fault) ==
    IF event.is_directory THEN except_Exception(Start(fs))
    ELSE IF IsIgnored(event.src_path) THEN except_Exception(Start(fs))
    ELSE except_Exception(
             moved_body(self, Start(fs), PurePath(event.src_path),
                        PurePath(event.dest_path), fault))

\* Handler.on_moved
on_moved(self, event, fs, fault) ==
    IF event.is_directory THEN except_Exception(Start(fs))
    ELSE IF IsIgnored(event.src_path) THEN except_Exception(Start(fs))
    ELSE IF IsIgnored(event.dest_path) THEN except_Exception(Start(fs))
    ELSE except_Exception(
             moved_body(self, Start(fs), PurePath(event.src_path),
                        PurePath(event.dest_path), fault))

\* the try body of Handler.on_deleted, past the two early returns
deleted_body(self, r, src_path, fault) ==
    recursively_clean_dirs_upwards(
                 self,
        unlink_if_exists(r, InDestination[self][src_path], fault),
        parent(InDestination[self][src_path]), fault)

\* Handler.on_deleted
on_deleted(self, event, fs, fault) ==
    IF event.is_directory THEN except_Exception(Start(fs))
    ELSE IF IsIgnored(event.src_path) THEN except_Exception(Start(fs))
    ELSE except_Exception(deleted_body(self, Start(fs), event.src_path, fault))

\* FileSystemEventHandler.dispatch: the callback of the event's type
dispatch(self, event, fs, fault) ==
    CASE event.event_type = "created"  -> on_created(self, event, fs, fault)
      [] event.event_type = "modified" -> on_modified(self, event, fs, fault)
      [] event.event_type = "moved"    -> on_moved(self, event, fs, fault)
      [] event.event_type = "deleted"  -> on_deleted(self, event, fs, fault)

-----------------------------------------------------------------------------
(* The watched tree, the observer and the events.                          *)

FileEvent(type, path) ==
    [event_type |-> type, is_directory |-> FALSE,
     src_path |-> path, dest_path |-> <<>>]

FileMovedEvent(old, new) ==
    [event_type |-> "moved", is_directory |-> FALSE,
     src_path |-> old, dest_path |-> new]

\* the events of a directory made, touched or removed, and of one renamed
DirEvents ==
    {[event_type |-> t, is_directory |-> TRUE,
      src_path |-> DirA, dest_path |-> <<>>] :
         t \in {"created", "modified", "deleted"}}
    \cup
    {[event_type |-> "moved", is_directory |-> TRUE,
      src_path |-> DirA, dest_path |-> DirB]}

NoCall == [called |-> FALSE]

Other(c) == CHOOSE d \in Contents : d # c

CanOperate == nOps < MaxOps /\ Len(queue) < MaxQueue

\* observer.start() starts the emitter of the scheduled path and
\* observer.stop() stops it
EmitterAlive == observer # "unstarted" /\ ~stopEvent

\* the observer's emitter queues the event of a change of the watched tree
Emit(event) ==
    /\ queue' = IF EmitterAlive THEN Append(queue, event) ELSE queue
    /\ nOps' = nOps + 1
    /\ last' = NoCall
    /\ UNCHANGED <<dstFs, ignore_pattern, observer,
                   mapVars, pruneVars, dispVars, mainVars, lifeVars>>

CreateFile(p) ==
    /\ CanOperate
    /\ srcFs[p] = NoFile
    /\ srcFs' = [srcFs EXCEPT ![p] = "c1"]
    /\ Emit(FileEvent("created", p))

ModifyFile(p) ==
    /\ CanOperate
    /\ srcFs[p] # NoFile
    /\ srcFs' = [srcFs EXCEPT ![p] = Other(@)]
    /\ Emit(FileEvent("modified", p))

DeleteFile(p) ==
    /\ CanOperate
    /\ srcFs[p] # NoFile
    /\ srcFs' = [srcFs EXCEPT ![p] = NoFile]
    /\ Emit(FileEvent("deleted", p))

MoveFile(old, new) ==
    /\ CanOperate
    /\ old # new
    /\ srcFs[old] # NoFile
    /\ srcFs' = [srcFs EXCEPT ![new] = srcFs[old], ![old] = NoFile]
    /\ Emit(FileMovedEvent(old, new))

\* a directory of the watched tree is made, touched, renamed or removed
DirectoryChange(event) ==
    /\ CanOperate
    /\ UNCHANGED srcFs
    /\ Emit(event)

\* The observer thread takes the oldest event and calls the Handler.  An
\* exception that leaves the callback ends the observer thread.
HandleEvent(fault) ==
    /\ observer = "running"
    /\ queue # <<>>
    /\ LET event == Head(queue)
           r     == dispatch(Handler, event, dstFs, fault)
       IN  /\ dstFs' = r.fs
           /\ last' = [called |-> TRUE, event |-> event, pre |-> dstFs,
                       ops |-> r.ops, exc |-> r.exc,
                       warned |-> r.warned, raised |-> r.raised]
           /\ observer' = IF r.raised # "none" THEN "dead" ELSE observer
    /\ queue' = Tail(queue)
    /\ UNCHANGED <<srcFs, ignore_pattern, nOps,
                   mapVars, pruneVars, dispVars, mainVars, lifeVars>>

\* the variables of the path mapper and of main() when they are not run
MapIdle == mapPath = <<>> /\ mapResult = <<>>

MainIdle ==
    /\ mainPc = "idle"
    /\ nStarted = 0
    /\ nJoined = 0
    /\ workerPc = <<>>
    /\ watcher = <<>>
    /\ observerThread = <<>>
    /\ process = "idle"

\* the pruner is not called on its own
PruneIdle ==
    /\ pruneDest = <<>>
    /\ prunePath = <<>>
    /\ prunePc = "idle"
    /\ pruneCalls = 0

\* main() has made no watchers
DispIdle ==
    /\ listing = <<>>
    /\ threads = <<>>
    /\ queues = <<>>
    /\ inProgress = <<>>

\* no call of Watcher.stop()
LifeIdle ==
    /\ stopEvent = FALSE
    /\ stopPc = <<>>

WatchIdle ==
    /\ srcFs = [p \in SrcFiles |-> NoFile]
    /\ dstFs = EmptyDst
    /\ queue = <<>>
    /\ ignore_pattern = <<>>
    /\ observer = "running"
    /\ last = NoCall
    /\ nOps = 0

Patterns == {<<>>, <<"y">>}

\* The backup of the watched tree src that the Handler has built once it has
\* handled the creation of every file of src: each file that is not ignored
\* at the path __in_destination gives it, below the directories makedirs
\* has made for it.
BackupOf(src, pattern) ==
    LET kept == {p \in SrcFiles :
                     src[p] # NoFile /\ ~(pattern # <<>> /\ re_search(pattern, p))}
    IN  [q \in DstPaths |->
            IF \E p \in kept : q = InDestination[Handler][p]
            THEN src[CHOOSE p \in kept : q = InDestination[Handler][p]]
            ELSE IF \E p \in kept : q \in Ancestors(InDestination[Handler][p])
                 THEN Dir
                 ELSE NoFile]

\* The watcher starts on a watched tree that holds any of the files, with the
\* backup an earlier run has left of them; both trees may be empty.
Init ==
    /\ srcFs \in [SrcFiles -> {NoFile, "c1"}]
    /\ ignore_pattern \in Patterns
    /\ dstFs = BackupOf(srcFs, ignore_pattern)
    /\ queue = <<>>
    /\ observer = "running"
    /\ last = NoCall
    /\ nOps = 0
    /\ MapIdle
    /\ PruneIdle
    /\ DispIdle
    /\ MainIdle
    /\ LifeIdle

\* the same, on an empty watched tree and an empty backup
InitEmpty ==
    /\ Init
    /\ srcFs = [p \in SrcFiles |-> NoFile]

\* a change of the watched tree
Change ==
    \/ \E p \in SrcFiles : CreateFile(p)
    \/ \E p \in SrcFiles : ModifyFile(p)
    \/ \E p \in SrcFiles : DeleteFile(p)
    \/ \E old \in SrcFiles, new \in SrcFiles : MoveFile(old, new)
    \/ \E event \in DirEvents : DirectoryChange(event)

Next ==
    \/ Change
    \/ \E fault \in Faults \cup {"none"} : HandleEvent(fault)

\* the operating system refuses no call
NextNoFault ==
    \/ Change
    \/ HandleEvent("none")

\* a watcher on any watched tree, with calls that may be refused
Spec == Init /\ [][Next]_vars

\* a watcher started on an empty watched tree and an empty backup, with no
\* call refused
SpecEmpty == InitEmpty /\ [][NextNoFault]_vars

-----------------------------------------------------------------------------
(* Watcher.start() and Watcher.stop(), called on one Watcher in any order  *)
(* by threads other than its observer thread.  observer is the observer    *)
(* thread: "unstarted" (Observer() of Watcher.__init__), "running" (after  *)
(* observer.start()) or "finished" (its loop has seen the stop flag and    *)
(* has ended).                                                             *)

\* the threads that call stop()
Callers == 1..MaxCallers

\* a Watcher that has just been constructed, on an empty watched tree and an
\* empty backup
InitLife ==
    /\ srcFs = [p \in SrcFiles |-> NoFile]
    /\ ignore_pattern = <<>>
    /\ dstFs = BackupOf(srcFs, ignore_pattern)
    /\ queue = <<>>
    /\ observer = "unstarted"
    /\ last = NoCall
    /\ nOps = 0
    /\ stopEvent = FALSE
    /\ stopPc = [t \in Callers |-> "idle"]
    /\ MapIdle
    /\ PruneIdle
    /\ DispIdle
    /\ MainIdle

\* Watcher.start(): the handler is scheduled and the observer thread started
WatcherStartCall ==
    /\ observer = "unstarted"
    /\ observer' = "running"
    /\ last' = NoCall
    /\ UNCHANGED <<srcFs, dstFs, queue, ignore_pattern, nOps,
                   mapVars, pruneVars, dispVars,
                   mainVars, lifeVars>>

\* Watcher.stop(), called by thread t: self.observer.stop() sets the stop
\* flag, and self.observer.join() is Thread.join, which raises RuntimeError
\* ("cannot join thread before it is started") for a thread that has not
\* been started and waits for the thread otherwise.
WatcherStopCall(t) ==
    /\ stopPc[t] = "idle"
    /\ stopEvent' = TRUE
    /\ stopPc' = [stopPc EXCEPT ![t] = IF observer = "unstarted"
                                       THEN "RuntimeError" ELSE "join"]
    /\ last' = NoCall
    /\ UNCHANGED <<srcFs, dstFs, queue, ignore_pattern, observer, nOps,
                   mapVars, pruneVars, dispVars, mainVars>>

\* the loop of the observer thread finds the stop flag set and ends
ObserverExit ==
    /\ observer = "running"
    /\ stopEvent
    /\ observer' = "finished"
    /\ last' = NoCall
    /\ UNCHANGED <<srcFs, dstFs, queue, ignore_pattern, nOps,
                   mapVars, pruneVars, dispVars,
                   mainVars, lifeVars>>

\* stop() without the join: it returns while the observer thread may live
WatcherStopReturnsWithoutJoin(t) ==
    /\ stopPc[t] = "join"
    /\ stopPc' = [stopPc EXCEPT ![t] = "returned"]
    /\ last' = NoCall
    /\ UNCHANGED <<srcFs, dstFs, queue, ignore_pattern, observer, nOps,
                   stopEvent, mapVars, pruneVars, dispVars, mainVars>>

\* self.observer.join() returns once the observer thread has ended; stop()
\* logs that the observer has been stopped and returns
WatcherStopReturns(t) ==
    /\ stopPc[t] = "join"
    /\ observer # "running"
    /\ stopPc' = [stopPc EXCEPT ![t] = "returned"]
    /\ last' = NoCall
    /\ UNCHANGED <<srcFs, dstFs, queue, ignore_pattern, observer, nOps,
                   stopEvent, mapVars, pruneVars, dispVars, mainVars>>

NextLife ==
    \/ Change
    \/ HandleEvent("none")
    \/ WatcherStartCall
    \/ ObserverExit
    \/ \E t \in Callers : WatcherStopCall(t)
    \/ \E t \in Callers : WatcherStopReturns(t)

SpecLife == InitLife /\ [][NextLife]_vars

-----------------------------------------------------------------------------
(* The pruner on its own: Handler.__recursively_clean_dirs_upwards, one    *)
(* invocation at a time, for a Handler with any dest and from any          *)
(* starting path, on any tree.                                             *)

\* a path of the backup tree that other paths lie below
IsInner(p) == \E q \in DstPaths : q # p /\ IsUnder(q, p)

\* the trees: directories and files, each inside a directory
PruneTrees ==
    {fs \in [DstPaths -> {NoFile, Dir, "c1"}] :
        \A p \in DstPaths :
            /\ fs[p] = Dir => IsInner(p)
            /\ fs[p] = "c1" => ~IsInner(p)
            /\ fs[p] # NoFile => Entry(fs, DstParent[p]) = Dir}

\* self.dest: dest, a directory below it, dest written with "..", and a
\* directory that is not in the tree
PruneDests ==
    {dest, joinpath(dest, <<"a">>), joinpath(dest, <<"b", "/", ".", ".">>),
     <<"/", "e">>}

PruneStarts == DstPaths \cup {Root}

InitPrune ==
    /\ pruneDest \in PruneDests
    /\ prunePath \in PruneStarts
    /\ prunePc = "call"
    /\ pruneCalls = 0
    /\ dstFs \in PruneTrees
    /\ srcFs = [p \in SrcFiles |-> NoFile]
    /\ queue = <<>>
    /\ ignore_pattern = <<>>
    /\ observer = "running"
    /\ last = NoCall
    /\ nOps = 0
    /\ MapIdle
    /\ DispIdle
    /\ MainIdle
    /\ LifeIdle

\* how an invocation that raises exc ends: FileNotFoundError is caught by
\* "except FileNotFoundError: return", here and in every invocation above
\* it; any other exception leaves them all
PrunerEnds(exc) == IF exc \in {"none", "FileNotFoundError"} THEN "returned"
                                                            ELSE "raised"

\* one invocation of __recursively_clean_dirs_upwards(prunePath)
PrunerCall(fault) ==
    /\ prunePc = "call"
    /\ pruneCalls' = pruneCalls + 1
    /\ LET listed  == iterdir(Start(dstFs), prunePath, fault)
           removed == rmtree(listed, prunePath, fault)
       IN  IF prunePath = pruneDest
           THEN prunePc' = "returned" /\ UNCHANGED <<prunePath, dstFs>>
           ELSE IF listed.exc # "none"
           THEN prunePc' = PrunerEnds(listed.exc) /\ UNCHANGED <<prunePath, dstFs>>
           ELSE IF HasEntries(dstFs, prunePath)
           THEN prunePc' = "returned" /\ UNCHANGED <<prunePath, dstFs>>
           ELSE IF removed.exc # "none"
           THEN prunePc' = PrunerEnds(removed.exc) /\ UNCHANGED <<prunePath, dstFs>>
           ELSE /\ dstFs' = removed.fs
                /\ prunePath' = up(prunePath)
                /\ prunePc' = "call"
    /\ UNCHANGED <<pruneDest, srcFs, queue, ignore_pattern, observer, last, nOps,
                   mapVars, dispVars, mainVars, lifeVars>>

NextPrune == \E fault \in {"none", "iterdir", "rmtree"} : PrunerCall(fault)

\* the thread that runs the pruner keeps running
SpecPrune == InitPrune /\ [][NextPrune]_vars /\ WF_vars(NextPrune)

-----------------------------------------------------------------------------
(* The path mapper on its own.                                             *)

\* names of files and directories
Names == {<<"a">>, <<"d">>, <<"s">>, <<"s", "x">>}

\* the paths that lie n names below source
RECURSIVE PathsBelow(_)
PathsBelow(n) ==
    IF n = 0 THEN {source}
    ELSE {joinpath(p, name) : p \in PathsBelow(n - 1), name \in Names}

MapInputs == UNION {PathsBelow(n) : n \in 1..MaxDepth}

InitMap ==
    /\ mapPath \in MapInputs
    /\ mapResult = <<>>
    /\ PruneIdle
    /\ DispIdle
    /\ WatchIdle
    /\ MainIdle
    /\ LifeIdle

\* a callback calls self.__in_destination(path)
CallInDestination ==
    /\ mapResult = <<>>
    /\ mapResult' = in_destination(Handler, mapPath)
    /\ UNCHANGED <<mapPath, watchVars, mainVars,
                   pruneVars, dispVars, lifeVars>>

SpecMap == InitMap /\ [][CallInDestination]_vars

-----------------------------------------------------------------------------
(* main() and its worker threads.                                          *)

\* the subdirectories of the source directory, as sorted(...) lists them
Subdirs == <<"p", "q", "r">>

Workers == DOMAIN Subdirs

InitMain ==
    /\ mainPc = "start_threads"
    /\ nStarted = 0
    /\ nJoined = 0
    /\ workerPc = [w \in Workers |-> "unstarted"]
    /\ watcher = [w \in Workers |-> "none"]
    /\ observerThread = [w \in Workers |-> "none"]
    /\ process = "running"
    /\ WatchIdle
    /\ MapIdle
    /\ PruneIdle
    /\ DispIdle
    /\ LifeIdle

\* "[x.start() for x in threads]": the next thread, in order
MainStartThread ==
    /\ process = "running"
    /\ mainPc = "start_threads"
    /\ nStarted < Len(Subdirs)
    /\ nStarted' = nStarted + 1
    /\ workerPc' = [workerPc EXCEPT ![nStarted + 1] = "construct"]
    /\ UNCHANGED <<mainPc, nJoined, watcher, observerThread, process,
                   watchVars, mapVars, pruneVars, dispVars, lifeVars>>

\* every thread is started: main() goes on to "[x.join() for x in threads]"
MainThreadsStarted ==
    /\ process = "running"
    /\ mainPc = "start_threads"
    /\ nStarted = Len(Subdirs)
    /\ mainPc' = "join"
    /\ UNCHANGED <<nStarted, nJoined, workerPc, watcher, observerThread,
                   process, watchVars, mapVars, pruneVars, dispVars, lifeVars>>

\* x.join() returns once the worker function of x has returned
MainJoin ==
    /\ process = "running"
    /\ mainPc = "join"
    /\ nJoined < Len(Subdirs)
    /\ workerPc[nJoined + 1] = "done"
    /\ nJoined' = nJoined + 1
    /\ UNCHANGED <<mainPc, nStarted, workerPc, watcher, observerThread,
                   process, watchVars, mapVars, pruneVars, dispVars, lifeVars>>

\* The main thread ends and with it the process: the worker threads and the
\* observer threads are daemon threads, which end with it.
ProcessExit ==
    /\ process' = "exited"
    /\ workerPc' = [w \in Workers |->
                       IF workerPc[w] \in {"unstarted", "done"}
                       THEN workerPc[w] ELSE "killed"]
    /\ observerThread' = [w \in Workers |->
                             IF observerThread[w] = "alive"
                             THEN "killed" ELSE observerThread[w]]

\* every thread is joined: main() returns
MainReturn ==
    /\ process = "running"
    /\ mainPc = "join"
    /\ nJoined = Len(Subdirs)
    /\ mainPc' = "returned"
    /\ ProcessExit
    /\ UNCHANGED <<nStarted, nJoined, watcher, watchVars,
                   mapVars, pruneVars, dispVars, lifeVars>>

\* SIGINT: Python raises KeyboardInterrupt in the main thread, inside the
\* try statement of main()
KeyboardInterrupt ==
    /\ process = "running"
    /\ mainPc \in {"start_threads", "join"}
    /\ mainPc' = "interrupted"
    /\ UNCHANGED <<nStarted, nJoined, workerPc, watcher, observerThread,
                   process, watchVars, mapVars, pruneVars, dispVars, lifeVars>>

\* "except KeyboardInterrupt" of main(): two messages, then main() returns
MainInterruptedReturn ==
    /\ process = "running"
    /\ mainPc = "interrupted"
    /\ ProcessExit
    /\ UNCHANGED <<mainPc, nStarted, nJoined, watcher, watchVars,
                   mapVars, pruneVars, dispVars, lifeVars>>

\* worker: watcher = Watcher(logger, source, destination, ignore_pattern)
WorkerConstruct(w) ==
    /\ process = "running"
    /\ workerPc[w] = "construct"
    /\ watcher' = [watcher EXCEPT ![w] = "NEW"]
    /\ workerPc' = [workerPc EXCEPT ![w] = "start"]
    /\ UNCHANGED <<mainPc, nStarted, nJoined, observerThread, process,
                   watchVars, mapVars, pruneVars, dispVars, lifeVars>>

\* worker: watcher.start(), up to and with self.observer.start()
WatcherStart(w) ==
    /\ process = "running"
    /\ workerPc[w] = "start"
    /\ observerThread' = [observerThread EXCEPT ![w] = "alive"]
    /\ watcher' = [watcher EXCEPT ![w] = "RUNNING"]
    /\ workerPc' = [workerPc EXCEPT ![w] = "in_start"]
    /\ UNCHANGED <<mainPc, nStarted, nJoined, process, watchVars,
                   mapVars, pruneVars, dispVars, lifeVars>>

\* watcher.start() logs that the observer has been started and returns, and
\* worker returns with it: nothing of start() waits
WatcherStartReturns(w) ==
    /\ process = "running"
    /\ workerPc[w] = "in_start"
    /\ workerPc' = [workerPc EXCEPT ![w] = "done"]
    /\ UNCHANGED <<mainPc, nStarted, nJoined, watcher, observerThread,
                   process, watchVars, mapVars, pruneVars, dispVars, lifeVars>>

NextMain ==
    \/ MainStartThread
    \/ MainThreadsStarted
    \/ MainJoin
    \/ MainReturn
    \/ KeyboardInterrupt
    \/ MainInterruptedReturn
    \/ \E w \in Workers : WorkerConstruct(w)
    \/ \E w \in Workers : WatcherStart(w)
    \/ \E w \in Workers : WatcherStartReturns(w)

SpecMain == InitMain /\ [][NextMain]_vars

-----------------------------------------------------------------------------
(* main() with the watchers it makes, while the process lives: the         *)
(* directory source is listed, one worker thread is made for each of its   *)
(* subdirectories and each worker makes and starts a Watcher; then files   *)
(* of source change, each observer queues the events of its scheduled      *)
(* path, and each observer thread calls its Handler.                       *)

\* the characters of the names, in the order of their code points
Alphabet == <<".", "/", "a", "b", "c", "d", "f", "s", "x", "y">>

ord(c) == CHOOSE i \in DOMAIN Alphabet : Alphabet[i] = c

\* s < t for Python strings
RECURSIVE str_lt(_, _)
str_lt(s, t) ==
    IF t = <<>> THEN FALSE
    ELSE IF s = <<>> THEN TRUE
    ELSE IF s[1] # t[1] THEN ord(s[1]) < ord(t[1])
    ELSE str_lt(Tail(s), Tail(t))

\* x put into the sorted list at its place
RECURSIVE insort(_, _)
insort(x, list) ==
    IF list = <<>> THEN <<x>>
    ELSE IF str_lt(x, Head(list)) THEN <<x>> \o list
    ELSE <<Head(list)>> \o insort(x, Tail(list))

\* sorted(list) of strings
RECURSIVE sorted(_)
sorted(list) ==
    IF list = <<>> THEN <<>> ELSE insort(Head(list), sorted(Tail(list)))

\* the entries os.listdir(source) can return, in any order
Entries ==
    {[name |-> n, is_dir |-> TRUE] : n \in DirNames}
    \cup {[name |-> n, is_dir |-> FALSE] : n \in FileNames}

Listings ==
    {l \in UNION {[1..n -> Entries] : n \in 0..Cardinality(Entries)} :
        \A i, j \in DOMAIN l : i # j => l[i] # l[j]}

\* the names of a list of entries
RECURSIVE names(_)
names(l) == IF l = <<>> THEN <<>> ELSE <<Head(l).name>> \o names(Tail(l))

\* "source.joinpath(x).resolve().is_dir()"
is_dir(entry) == entry.is_dir

\* subdirs of main() without the filter: every entry of the listing
subdirs_without_is_dir_filter(l) == sorted(names(l))

\* subdirs of main() without sorted(): the order of the listing
subdirs_unsorted(l) == names(SelectSeq(l, is_dir))

\* "subdirs = sorted(list(filter(lambda x: ...is_dir(), os.listdir(source))))"
subdirs(l) == sorted(names(SelectSeq(l, is_dir)))

\* "threads = [Thread(..., args=(logger, source.joinpath(subdir)...,
\* destination.joinpath(subdir)..., ignore_pattern)) for subdir in subdirs]"
main_threads(l) == [i \in DOMAIN subdirs(l) |-> thread_args(subdirs(l)[i])]

\* __init_dirs: "if not os.path.exists(dest): os.makedirs(dest)"
init_dirs(fs) ==
    IF exists(fs, destination) THEN fs
    ELSE makedirs(Start(fs), destination, "none").fs

\* the places of the list threads
WatcherIds == 1..Cardinality(Entries)

\* the variables of main() that this part leaves alone
mainRest == <<nStarted, nJoined, workerPc, watcher, observerThread, process>>

\* main() is called: source has been listed; destination may be missing
InitDispatch ==
    /\ listing \in Listings
    /\ threads = <<>>
    /\ queues = <<>>
    /\ inProgress = <<>>
    /\ srcFs = [p \in AllFiles |->
                   IF p = RootFile /\ \E i \in DOMAIN listing :
                                          joinpath(source, listing[i].name) = p
                   THEN "c1" ELSE NoFile]
    /\ dstFs \in {EmptyDst, [EmptyDst EXCEPT ![destination] = Dir]}
    /\ queue = <<>>
    /\ ignore_pattern = <<>>
    /\ observer = "running"
    /\ last = NoCall
    /\ nOps = 0
    /\ mainPc = "init_dirs"
    /\ nStarted = 0
    /\ nJoined = 0
    /\ workerPc = <<>>
    /\ watcher = <<>>
    /\ observerThread = <<>>
    /\ process = "idle"
    /\ MapIdle
    /\ LifeIdle
    /\ PruneIdle

\* main() from __init_dirs to the start of the threads, with the workers:
\* each makes its Watcher and starts it, and main() waits in join
MainStartsWatchers ==
    /\ mainPc = "init_dirs"
    /\ dstFs' = init_dirs(dstFs)
    /\ threads' = main_threads(listing)
    /\ queues' = [w \in DOMAIN main_threads(listing) |-> <<>>]
    /\ inProgress' = [w \in DOMAIN main_threads(listing) |-> <<>>]
    /\ mainPc' = "join"
    /\ UNCHANGED <<srcFs, queue, ignore_pattern, observer, last, nOps, listing,
                   mainRest, mapVars, lifeVars, pruneVars>>

\* "self.observer.schedule(self.handler, self.source, recursive=True, ...)":
\* the observer of a Watcher sees the events of self.source and below
Observes(self, path) == IsUnder(path, self.source)

\* the watchers whose observer sees an event
Observers(event) ==
    {w \in DOMAIN threads :
        \/ Observes(threads[w], event.src_path)
        \/ event.dest_path # <<>> /\ Observes(threads[w], event.dest_path)}

\* a file of source changes: the observers that see the event queue it
SourceChange(event, changed) ==
    /\ mainPc = "join"
    /\ nOps < MaxChanges
    /\ \A w \in Observers(event) : Len(queues[w]) < MaxQueue
    /\ srcFs' = changed
    /\ queues' = [w \in DOMAIN queues |->
                     IF w \in Observers(event) THEN Append(queues[w], event)
                                               ELSE queues[w]]
    /\ nOps' = nOps + 1
    /\ last' = NoCall
    /\ UNCHANGED <<dstFs, queue, ignore_pattern, observer, listing, threads,
                   inProgress, mainVars, mapVars, lifeVars, pruneVars>>

SourceCreate(p) ==
    /\ srcFs[p] = NoFile
    /\ SourceChange(FileEvent("created", p), [srcFs EXCEPT ![p] = "c1"])

SourceModify(p) ==
    /\ srcFs[p] # NoFile
    /\ SourceChange(FileEvent("modified", p), [srcFs EXCEPT ![p] = Other(@)])

SourceDelete(p) ==
    /\ srcFs[p] # NoFile
    /\ SourceChange(FileEvent("deleted", p), [srcFs EXCEPT ![p] = NoFile])

\* a file is renamed inside its directory
SourceMove(old, new) ==
    /\ old # new
    /\ parent(old) = parent(new)
    /\ srcFs[old] # NoFile
    /\ SourceChange(FileMovedEvent(old, new),
                    [srcFs EXCEPT ![new] = srcFs[old], ![old] = NoFile])

\* an observer that calls the Handler for the next event while a call is
\* in progress
ObserverTakesConcurrently(w) ==
    /\ mainPc = "join"
    /\ w \in DOMAIN threads
    /\ queues[w] # <<>>
    /\ inProgress' = [inProgress EXCEPT ![w] = Append(@, Head(queues[w]))]
    /\ queues' = [queues EXCEPT ![w] = Tail(@)]
    /\ last' = NoCall
    /\ UNCHANGED <<srcFs, dstFs, queue, ignore_pattern, observer, nOps,
                   listing, threads, mainVars, mapVars, lifeVars, pruneVars>>

\* "self.observer = Observer()": each Watcher has one observer thread, which
\* takes the oldest event of its queue and calls the Handler when the call
\* before has returned
ObserverTakes(w) ==
    /\ mainPc = "join"
    /\ w \in DOMAIN threads
    /\ queues[w] # <<>>
    /\ inProgress[w] = <<>>
    /\ inProgress' = [inProgress EXCEPT ![w] = Append(@, Head(queues[w]))]
    /\ queues' = [queues EXCEPT ![w] = Tail(@)]
    /\ last' = NoCall
    /\ UNCHANGED <<srcFs, dstFs, queue, ignore_pattern, observer, nOps,
                   listing, threads, mainVars, mapVars, lifeVars, pruneVars>>

\* the Handler call of watcher w makes its file-system calls and returns
HandlerReturns(w, fault) ==
    /\ mainPc = "join"
    /\ w \in DOMAIN threads
    /\ inProgress[w] # <<>>
    /\ LET event == Head(inProgress[w])
           r     == dispatch(threads[w], event, dstFs, fault)
       IN  /\ dstFs' = r.fs
           /\ last' = [called |-> TRUE, event |-> event, pre |-> dstFs,
                       ops |-> r.ops, exc |-> r.exc,
                       warned |-> r.warned, raised |-> r.raised,
                       watcher |-> w]
    /\ inProgress' = [inProgress EXCEPT ![w] = Tail(@)]
    /\ UNCHANGED <<srcFs, queue, ignore_pattern, observer, nOps, listing,
                   threads, queues, mainVars, mapVars, lifeVars, pruneVars>>

NextDispatch ==
    \/ MainStartsWatchers
    \/ \E p \in AllFiles : SourceCreate(p)
    \/ \E p \in AllFiles : SourceModify(p)
    \/ \E p \in AllFiles : SourceDelete(p)
    \/ \E old \in AllFiles, new \in AllFiles : SourceMove(old, new)
    \/ \E w \in WatcherIds : ObserverTakes(w)
    \/ \E w \in WatcherIds, fault \in {"none", "copy2"} :
           HandlerReturns(w, fault)

SpecDispatch == InitDispatch /\ [][NextDispatch]_vars

-----------------------------------------------------------------------------
(* What the claims speak of.                                               *)

\* the Handler has just been called with a file event of this type
FileCall(type) ==
    /\ last.called
    /\ last.event.event_type = type
    /\ ~last.event.is_directory

\* the calls of this name the last Handler call has made, as places in ops
OpsNamed(name) == {i \in DOMAIN last.ops : last.ops[i][1] = name}

\* the last Handler call has made this call on this path
DidOp(name, path) == \E i \in DOMAIN last.ops : last.ops[i] = <<name, path>>

\* d is a directory without entries in fs
IsEmptyDir(fs, d) == Entry(fs, d) = Dir /\ ~HasEntries(fs, d)

\* the names of the directories that os.listdir(source) has listed
ListedDirs == {listing[i].name : i \in {j \in DOMAIN listing : listing[j].is_dir}}

\* a file that no watcher is made for: it lies in source itself, or in a
\* directory of source that was not listed as main() started
Unwatched(p) ==
    \/ parent(p) = source
    \/ \A n \in ListedDirs : ~IsUnder(p, joinpath(source, n))

\* the events of watcher w that wait or are being handled
EventsOf(w) ==
    {queues[w][i] : i \in DOMAIN queues[w]}
    \cup {inProgress[w][i] : i \in DOMAIN inProgress[w]}

\* the backup paths the last Handler call has changed
Changed == {q \in DstPaths : dstFs[q] # last.pre[q]}

\* directories of the backup strictly between dest and path
ChainBelowDest(path) == Ancestors(path) \ SelfAndAncestors(dest)

\* the backup below dest is exactly the files MapPath(p) of the files p of
\* the watched tree, each with the content of p, below their directories
IsMirror ==
    \A q \in DstPaths \ {dest} :
        IF \E p \in SrcFiles : srcFs[p] # NoFile /\ q = MapPath(p)
        THEN \E p \in SrcFiles :
                 srcFs[p] # NoFile /\ q = MapPath(p) /\ dstFs[q] = srcFs[p]
        ELSE IF \E p \in SrcFiles : srcFs[p] # NoFile /\ q \in Ancestors(MapPath(p))
             THEN dstFs[q] = Dir
             ELSE dstFs[q] = NoFile

-----------------------------------------------------------------------------
(* The claims.                                                             *)

\* C1: an exception raised by a file-system call inside on_created,
\* on_modified, on_moved or on_deleted is caught in that call and logged as
\* a warning; it does not leave the callback and the observer thread keeps
\* running, so that the next event of the queue is handled by the same
\* Handler from the backup the failed call has left.
C1_ErrorIsolation ==
    /\ observer = "running"
    /\ (last.called /\ last.exc # "none") =>
           /\ last.raised = "none"
           /\ last.warned

C1_Witness ==
    /\ last.called
    /\ last.exc = "PermissionError"
    /\ last.warned
    /\ observer = "running"
    /\ queue # <<>>

\* C2: started on an empty watched tree and an empty backup, with no ignore
\* pattern and no refused call, once the event queue is empty the backup
\* holds exactly the files MapPath(p) of the files p of the watched tree,
\* each with the content of p, and nothing else.
C2_Convergence ==
    (queue = <<>> /\ ignore_pattern = <<>>) => IsMirror

\* C3: after on_created has handled a Created event of a file that is not
\* ignored and exists in the watched tree, with no call refused, the backup
\* holds the file at MapPath(src_path) with the content of the source, the
\* directories above it exist, and nothing else of the backup has changed.
C3_Created ==
    (/\ FileCall("created")
     /\ ~IsIgnored(last.event.src_path)
     /\ srcFs[last.event.src_path] # NoFile
     /\ last.exc # "PermissionError") =>
        LET mapped == MapPath(last.event.src_path)
        IN  /\ dstFs[mapped] = srcFs[last.event.src_path]
            /\ \A q \in Ancestors(mapped) : dstFs[q] = Dir
            /\ \A q \in DstPaths \ SelfAndAncestors(mapped) :
                   dstFs[q] = last.pre[q]

C6_Moved ==
    (/\ FileCall("moved")
     /\ ~IsIgnored(last.event.src_path)
     /\ ~IsIgnored(last.event.dest_path)
     /\ srcFs[last.event.dest_path] # NoFile
     /\ last.exc = "none") =>
        LET old == MapPath(last.event.src_path)
            new == MapPath(last.event.dest_path)
        IN  /\ dstFs[new] = srcFs[last.event.dest_path]
            /\ ~exists(dstFs, old)
            /\ \A d \in ChainBelowDest(old) :
                   HasEntries(last.pre, d) => ~IsEmptyDir(dstFs, d)
            /\ \A i \in OpsNamed("unlink") : \E j \in OpsNamed("copy2") : j < i

\* C7: with an ignore pattern set, an event whose src_path the pattern is
\* found in, and a Moved event whose src_path or dest_path it is found in,
\* leaves the backup as it was: the Handler makes no call that changes it.
C7_Ignored ==
    (/\ last.called
     /\ ignore_pattern # <<>>
     /\ \/ re_search(ignore_pattern, last.event.src_path)
        \/ /\ last.event.event_type = "moved"
           /\ re_search(ignore_pattern, last.event.dest_path)) =>
        /\ dstFs = last.pre
        /\ last.ops = <<>>

\* a file in the backup is moved to a path the pattern is found in
C7_Witness ==
    /\ FileCall("moved")
    /\ ignore_pattern # <<>>
    /\ ~re_search(ignore_pattern, last.event.src_path)
    /\ re_search(ignore_pattern, last.event.dest_path)
    /\ srcFs[last.event.dest_path] # NoFile
    /\ IsFile(last.pre, InDestination[Handler][last.event.src_path])
    /\ dstFs = last.pre

\* C8: an event of a directory, of any type, leaves the backup as it was:
\* the Handler makes no call that changes it.
C8_DirectoryEvents ==
    (last.called /\ last.event.is_directory) =>
        /\ dstFs = last.pre
        /\ last.ops = <<>>

\* a directory has been renamed while the backup has no dest yet
C8_Witness ==
    /\ last.called
    /\ last.event.is_directory
    /\ last.event.event_type = "moved"
    /\ ~exists(last.pre, dest)
    /\ dstFs = last.pre

\* C9: for every path below source, also one whose part below source holds
\* the string of source again, __in_destination returns dest joined with
\* the path relative to source.
C9_PathMapping ==
    mapResult # <<>> => mapResult = MapPath(mapPath)

\* C10: while a Watcher is RUNNING and the process has not been signalled,
\* its start() has not returned: the worker thread that runs it is inside
\* start(), and the process lives.
C10_StartLongLived ==
    \A w \in Workers :
        (watcher[w] = "RUNNING" /\ mainPc # "interrupted") =>
            /\ workerPc[w] = "in_start"
            /\ process = "running"

\* C12: when KeyboardInterrupt has arrived while watchers were running, the
\* process does not exit before stop() has been called on every watcher:
\* at the exit every watcher that was made is STOPPED.
C12_CoordinatedShutdown ==
    (/\ process = "exited"
     /\ mainPc = "interrupted"
     /\ \E w \in Workers : watcher[w] \in {"RUNNING", "STOPPED"}) =>
        \A w \in Workers : watcher[w] # "none" => watcher[w] = "STOPPED"

\* C13: the backup starts without an empty directory below dest, and after
\* every event that has been handled, also one whose source file is gone by
\* then, it holds no empty directory other than dest.
C13_NoEmptyDirectories ==
    \A d \in DstPaths \ {dest} : ~IsEmptyDir(dstFs, d)

\* C15: when on_created or on_modified handles the event of a file that is
\* not ignored and is gone from the watched tree when it is copied, the
\* event is dropped without a warning.
C15_VanishedSourceSilent ==
    (/\ last.called
     /\ ~last.event.is_directory
     /\ last.event.event_type \in {"created", "modified"}
     /\ ~IsIgnored(last.event.src_path)
     /\ srcFs[last.event.src_path] = NoFile
     /\ last.exc = "FileNotFoundError") =>
        ~last.warned

\* C11: a call of Watcher.stop() never raises, whether the watcher is NEW,
\* has been started or has been stopped before, and when it has returned
\* the watcher is STOPPED: its observer thread has been started and has
\* ended.
C11_StopNeverFaults ==
    \A t \in Callers :
        /\ stopPc[t] # "RuntimeError"
        /\ stopPc[t] = "returned" => observer = "finished"

\* C18: once a call of stop() has returned, the Handler of the watcher
\* handles no event and the backup is not changed any more.
C18_NoProcessingAfterStop ==
    [][(\E t \in Callers : stopPc[t] = "returned") =>
           /\ dstFs' = dstFs
           /\ queue' = queue
           /\ ~(last'.called /\ last' # last)]_vars

\* stop() has returned with an event left in the queue
C18_Witness ==
    /\ \E t \in Callers : stopPc[t] = "returned"
    /\ queue # <<>>
    /\ observer = "finished"

\* C16: the pruner terminates from every starting path, for every dest and
\* on every tree: an invocation that calls itself does so on the parent of
\* its path, which is not the root, and an invocation returns without
\* calling itself at dest, at a missing directory or at a directory that is
\* not empty.
C16_PrunerTerminates ==
    /\ <>(prunePc # "call")
    /\ [][prunePc' = "call" =>
              /\ prunePath # Root
              /\ prunePath' = parent(prunePath)
              /\ Len(prunePath') < Len(prunePath)]_vars
    /\ [][(prunePc = "call" /\ prunePc' = "returned") =>
              \/ prunePath = pruneDest
              \/ ~exists(dstFs, prunePath)
              \/ HasEntries(dstFs, prunePath)]_vars

\* the pruner has gone up past a dest that is written with "..", has
\* removed three directories and has returned at the root
C16_Witness ==
    /\ prunePc = "returned"
    /\ pruneCalls = 4
    /\ prunePath = Root
    /\ pruneDest # PurePath(pruneDest) \/ pruneDest # dest

\* C14: main() makes one worker, and so one Watcher, for each directory
\* that os.listdir(source) names, and none for another entry, in the sorted
\* order of the names, each with source joined with the name and
\* destination joined with the same name; main() itself makes destination
\* and leaves every path below it as it was; and a Created event of a file
\* that exists, handled with no call refused, puts the file at destination
\* joined with the file's path relative to source.
C14_DispatcherPairing ==
    /\ [](mainPc = "join" =>
            /\ Len(threads) = Cardinality(ListedDirs)
            /\ \A n \in ListedDirs : \E w \in DOMAIN threads :
                   threads[w] = [source |-> joinpath(source, n),
                                 dest   |-> joinpath(destination, n)]
            /\ \A v, w \in DOMAIN threads :
                   v < w => str_lt(threads[v].source, threads[w].source))
    /\ [][(mainPc = "init_dirs" /\ mainPc' = "join") =>
              /\ dstFs'[destination] = Dir
              /\ \A q \in DstPaths \ {destination} : dstFs'[q] = dstFs[q]]_vars
    /\ []((/\ FileCall("created")
           /\ srcFs[last.event.src_path] # NoFile
           /\ last.exc # "PermissionError") =>
              dstFs[joinpath(destination,
                             relative_to(last.event.src_path, source))]
                  = srcFs[last.event.src_path])

\* the listing names b before a, and the watcher of a, the first of two,
\* has copied a created file
C14_Witness ==
    /\ Len(threads) = 2
    /\ listing[1].name = <<"b">>
    /\ FileCall("created")
    /\ last.watcher = 1
    /\ last.event.src_path = FileA
    /\ last.pre[MapPath(FileA)] = NoFile
    /\ dstFs[MapPath(FileA)] = srcFs[FileA]
    /\ srcFs[FileA] # NoFile

\* C17: at no time are two calls of the Handler of one watcher in
\* progress; a call that begins is for the oldest event of the watcher's
\* queue, and an event that is queued is put at the end of the queue.
C17_SequentialHandling ==
    /\ [](\A w \in DOMAIN inProgress : Len(inProgress[w]) <= 1)
    /\ [][\A w \in DOMAIN inProgress :
              Len(inProgress'[w]) > Len(inProgress[w]) =>
                  /\ queues[w] # <<>>
                  /\ inProgress'[w] = Append(inProgress[w], Head(queues[w]))
                  /\ queues'[w] = Tail(queues[w])]_vars
    /\ [][\A w \in DOMAIN queues :
              Len(queues'[w]) > Len(queues[w]) =>
                  \E event \in EventsOf(w)' :
                      queues'[w] = Append(queues[w], event)]_vars

\* the Handlers of two watchers are in a call at the same time, and the
\* first has another event waiting
C17_Witness ==
    /\ Len(threads) = 2
    /\ inProgress[1] # <<>>
    /\ inProgress[2] # <<>>
    /\ queues[1] # <<>>

\* C19 as stated: every call of a Handler call that changes the backup, the
\* making of directories too, is on a path strictly below the dest of its
\* watcher.
C19_ConfinementStrict ==
    last.called =>
        \A i \in DOMAIN last.ops :
            /\ last.ops[i][2] # threads[last.watcher].dest
            /\ IsUnder(last.ops[i][2], threads[last.watcher].dest)

\* C19 as amended: a Handler call copies to, unlinks and removes only paths
\* strictly below the dest of its watcher, and makes directories only at
\* that dest and below it; every path of the backup it changes is that dest
\* or lies below it, and is neither the dest of another watcher nor below
\* one.
C19_Confinement ==
    last.called =>
        /\ \A i \in DOMAIN last.ops :
               /\ IsUnder(last.ops[i][2], threads[last.watcher].dest)
               /\ last.ops[i][1] # "makedirs" =>
                      last.ops[i][2] # threads[last.watcher].dest
        /\ \A q \in Changed :
               /\ IsUnder(q, threads[last.watcher].dest)
               /\ \A w \in DOMAIN threads \ {last.watcher} :
                      ~IsUnder(q, threads[w].dest)

\* with two watchers, a Handler call has made the dest of its watcher and
\* copied a file into it
C19_Witness ==
    /\ last.called
    /\ Len(threads) = 2
    /\ DidOp("makedirs", threads[last.watcher].dest)
    /\ threads[last.watcher].dest \in Changed
    /\ OpsNamed("copy2") # {}

\* C20: a file that lies in source itself, and a file in a directory of
\* source that was not listed as main() started, has no event in the queue
\* of any watcher, no Handler is called for it, and nothing is in the
\* backup at its mapped path nor in the directories above that path, below
\* destination.
C20_UnwatchedLocations ==
    mainPc = "join" =>
        \A p \in AllFiles :
            Unwatched(p) =>
                /\ \A w \in DOMAIN threads : \A event \in EventsOf(w) :
                       event.src_path # p /\ event.dest_path # p
                /\ last.called =>
                       last.event.src_path # p /\ last.event.dest_path # p
                /\ \A q \in SelfAndAncestors(MapPath(p)) \ {destination} :
                       dstFs[q] = NoFile

\* beside a watcher that has copied a file, a file of source itself has
\* been modified and nothing is in the backup for it
C20_Witness ==
    /\ mainPc = "join"
    /\ last.called
    /\ OpsNamed("copy2") # {}
    /\ srcFs[RootFile] = "c2"
    /\ dstFs[MapPath(RootFile)] = NoFile

====
